---- MODULE Spec2Model ----
(***************************************************************************)
(* A model of api/scanner.py (solana-drops-vercel): one scan_once run as a *)
(* sequential state machine.  Every HTTP attempt is one step whose outcome *)
(* (status, network failure, malformed body, body contents) is chosen by   *)
(* the environment; the step that ends a request also runs the caller's    *)
(* code up to the next request, sleep or return.                           *)
(*                                                                         *)
(* Numbers are integers: the source's floats are only compared, and        *)
(* divided once (price / ath), which the model keeps as an exact fraction. *)
(* A float may also be NaN, which float() yields for a string such as      *)
(* "-nan": every comparison with it is false.                              *)
(* The tenacity decorators are modelled as installed (the import at        *)
(* scanner.py:9 succeeds).                                                 *)
(***************************************************************************)
EXTENDS Integers, Sequences, FiniteSets, TLC

\* ------------------------------------------------------------- bounds
\* pairs in one search response
MaxPagePairs == 2
\* pools in one pool-lookup response
MaxPools == 2
\* pairs handed to one direct call of filter_candidates
MaxCallPairs == 2

\* ---------------------------------------------------- program constants
\* stop_after_attempt of DexClient.get_json and STClient.get_token_ath
DexMaxAttempts == 5
STMaxAttempts == 4
\* defaults of api/scan.py _cfg
VOLUME_MIN == 100000
VOLUME_MAX == 100000000
PRICE_THRESHOLD_PCT == 85
LIQ_MIN_USD == 20000
MCAP_MIN == 2000000
MCAP_MAX == 15000000

RetryStatuses == {429, 500, 502, 503, 504}
CHAIN_ID == "solana"

\* ------------------------------------------------- values and coercion
\* Optional[float]
None == [some |-> FALSE, val |-> 0, nan |-> FALSE]
Some(x) == [some |-> TRUE, val |-> x, nan |-> FALSE]
\* float('-nan'): a float that is not a number
NaN == [some |-> TRUE, val |-> 0, nan |-> TRUE]

\* A JSON value found where a number is expected: absent or null, a number,
\* a string holding a number, one of the tokens 'nan' / 'none' / '' (any case,
\* any surrounding blanks), a signed NaN string ('-nan', '+nan': not one of
\* the tokens, and float() accepts it), or any other text.
RawNull == [k |-> "null", v |-> 0]
RawNum(n) == [k |-> "num", v |-> n]
RawNumStr(n) == [k |-> "numstr", v |-> n]
RawToken == [k |-> "token", v |-> 0]
RawText == [k |-> "text", v |-> 0]
RawNanStr == [k |-> "nanstr", v |-> 0]

safe_float(x, default) ==
    CASE x.k = "null" -> default
      [] x.k = "token" -> default
      [] x.k = "text" -> default
      [] x.k = "nanstr" -> NaN
      [] OTHER -> Some(x.v)

\* Python truthiness of an Optional[float]: not None and not 0.0
Truthy(o) == o.some /\ (o.nan \/ o.val # 0)
\* Python's  a or b
OrElse(a, b) == IF Truthy(a) THEN a ELSE b
\* the idiom  x and x > 0
IsPos(o) == Truthy(o) /\ ~o.nan /\ o.val > 0
\* float comparisons: false as soon as an operand is NaN
FLt(a, b) == ~a.nan /\ ~b.nan /\ a.val < b.val
FLeq(a, b) == ~a.nan /\ ~b.nan /\ a.val <= b.val
FEq(a, b) == ~a.nan /\ ~b.nan /\ a.val = b.val

RECURSIVE GCD(_, _)
GCD(a, b) == IF b = 0 THEN a ELSE GCD(b, a % b)
Abs(x) == IF x < 0 THEN -x ELSE x
\* price / ath as an exact fraction in lowest terms (ath > 0)
Ratio(price, ath) ==
    LET g == GCD(Abs(price), ath)
    IN  [num |-> price \div g, den |-> ath \div g]
\* pct <= pct_threshold / 100.0
RatioLeqPct(r, pct) == r.num * 100 <= pct * r.den

Max(S) == CHOOSE m \in S : \A x \in S : x <= m

\* -------------------------------------------------------------- strings
\* Strings that the code splits or strips are sequences of characters.
IsBlank(c) == c \in {" ", "\t"}
RECURSIVE Strip(_)
Strip(s) ==
    IF s = <<>> THEN s
    ELSE IF IsBlank(Head(s)) THEN Strip(Tail(s))
    ELSE IF IsBlank(s[Len(s)]) THEN Strip(SubSeq(s, 1, Len(s) - 1))
    ELSE s

RECURSIVE SplitComma(_)
SplitComma(s) ==
    IF \A i \in 1..Len(s) : s[i] # ","
    THEN <<s>>
    ELSE LET i == CHOOSE i \in 1..Len(s) :
                     s[i] = "," /\ \A j \in 1..(i - 1) : s[j] # ","
         IN  <<SubSeq(s, 1, i - 1)>> \o SplitComma(SubSeq(s, i + 1, Len(s)))

Take(s, n) == SubSeq(s, 1, IF n < Len(s) THEN n ELSE Len(s))

Lower(s) == IF s \in {"SOLANA", "Solana"} THEN "solana" ELSE s

\* ---------------------------------------------------------------- seeds
Letters ==
    << "a", "b", "c", "d", "e", "f", "g", "h", "i", "j", "k", "l", "m",
       "n", "o", "p", "q", "r", "s", "t", "u", "v", "w", "x", "y", "z" >>
DEFAULT_SEEDS ==
    [ n \in 1..(Len(Letters) * Len(Letters)) |->
        << Letters[((n - 1) \div Len(Letters)) + 1],
           Letters[((n - 1) % Len(Letters)) + 1] >> ]

StripAll(ss) == [ i \in 1..Len(ss) |-> Strip(ss[i]) ]
LongEnough(ss, min_len) == SelectSeq(ss, LAMBDA s : Len(s) >= min_len)

\* mutant: seeds[:max_pages] whatever the sign of max_pages
SeedsAlwaysCut(max_pages, seeds_from_env, min_len) ==
    LET seeds == IF seeds_from_env # <<>>
                 THEN LongEnough(StripAll(SplitComma(seeds_from_env)), min_len)
                 ELSE LongEnough(DEFAULT_SEEDS, min_len)
    IN  IF max_pages >= 0 THEN Take(seeds, max_pages)
        ELSE SubSeq(seeds, 1, Len(seeds) + max_pages)

_get_seeds(max_pages, seeds_from_env, min_len) ==
    LET seeds == IF seeds_from_env # <<>>
                 THEN LongEnough(StripAll(SplitComma(seeds_from_env)), min_len)
                 ELSE LongEnough(DEFAULT_SEEDS, min_len)
    IN  IF max_pages > 0 THEN Take(seeds, max_pages) ELSE seeds

\* ------------------------------------------------------- HTTP attempts
\* What one HTTP attempt meets: a network-level failure, a response status,
\* a 2xx body that is not JSON (r.json() raises requests' JSONDecodeError, a
\* RequestException, or a plain ValueError with older releases of requests),
\* or a 2xx response with a JSON body.
ErrStatuses == RetryStatuses \cup {400, 401, 403, 404}
NoBody == [shape |-> "none", pairs |-> <<>>, highest_price |-> RawNull]
NetFailure == [kind |-> "net", code |-> 0, exc |-> "ConnectionError", body |-> NoBody]
StatusOutcome(c) == [kind |-> "status", code |-> c, exc |-> "none", body |-> NoBody]
BadJson(e) == [kind |-> "badjson", code |-> 200, exc |-> e, body |-> NoBody]
OkOutcome(b) == [kind |-> "ok", code |-> 200, exc |-> "none", body |-> b]
\* requests' exception hierarchy
IsRequestException(e) ==
    e \in {"RequestException", "ConnectionError", "HTTPError", "JSONDecodeError"}

Returned(v) == [exc |-> "none", msg |-> "", val |-> v]
Raised(e, m) == [exc |-> e, msg |-> m, val |-> NoBody]

\* the body of DexClient.get_json: one attempt
DexGetJsonOnce(o) ==
    IF o.kind = "net" THEN Raised("ConnectionError", "ConnectionError")
    ELSE IF o.code \in RetryStatuses THEN Raised("RequestException", ToString(o.code))
    ELSE IF o.code >= 400 THEN Raised("HTTPError", ToString(o.code) \o " Client Error")
    ELSE IF o.kind = "badjson" THEN Raised(o.exc, "Expecting value")
    ELSE Returned(o.body)

\* mutant: the attempt limit off by one
DexRetriesOnceMore(r, n) == IsRequestException(r.exc) /\ n <= DexMaxAttempts

\* tenacity: after attempt number n ended in r, make another attempt?
DexRetries(r, n) == IsRequestException(r.exc) /\ n < DexMaxAttempts

\* --------------------------------------------------------------- state
VARIABLES
    cfg,          \* scan_once's keyword arguments, and the process environment
    world,        \* the records the upstream APIs may serve during this scan
    pc,           \* where scan_once is
    seeds,        \* seeds
    idx,          \* the for loop's idx
    attempts,     \* attempts made so far by the get_json / get_token_ath in progress
    fetched, prefiltered, errors,
    best,         \* select_best_pair_by_token's dict, as its values in key order
    fi,           \* position of filter_candidates' loop in best.values()
    stats, rows,
    tps,          \* _ensure_ath's tps
    stClients,    \* the STClient instances created so far: [key, unauthorized]
    dexClients,   \* the number of DexClient instances created so far
    out,          \* scan_once's return value
    \* history, read only by the properties
    searchLog,    \* the get_json invocations on the search endpoint: [page, seed]
    sleeps,       \* inter-page sleeps completed
    last,         \* the HTTP attempt of the latest step, if it made one
    stLog,        \* the get_token_ath invocations: [mint, key, inst]
    stSaw401,     \* some secondary-provider response of this scan was a 401
    athLog,       \* per token that reached ATH resolution: [base, src, ath, net]
    athNet,       \* a request was sent for the ATH of the pair in hand
    pageLog,      \* per page whose fetch ended: [page, failed, msg, got, kept, chunk]
    mcapLog       \* per token whose market cap was resolved:
                  \*   [base, pair, mcap, looked, failed, pools]

vars == << cfg, world, pc, seeds, idx, attempts, fetched, prefiltered, errors,
           best, fi, stats, rows, tps, stClients, dexClients, out,
           searchLog, sleeps, last, stLog, stSaw401, athLog, athNet, pageLog,
           mcapLog >>

\* what one HTTP attempt of this scan may meet
Outcomes(bodies) ==
    {NetFailure}
      \cup {StatusOutcome(c) : c \in world.statuses}
      \cup {BadJson(e) : e \in {"JSONDecodeError", "ValueError"}}
      \cup {OkOutcome(b) : b \in bodies}

\* what the response of a lookup carried, for the properties: the first pair of
\* a pair lookup, the Solana pools of a pool lookup (as a set), the
\* highest_price of the secondary provider
NoData == [pairs |-> {}, high |-> RawNull]
DataOf(call, o) ==
    IF o.kind # "ok" THEN NoData
    ELSE IF call = "pair" /\ o.body.shape = "dict" /\ o.body.pairs # <<>>
    THEN [pairs |-> {o.body.pairs[1]}, high |-> RawNull]
    ELSE IF call = "pools" /\ o.body.shape \in {"list", "dict"}
    THEN [pairs |-> {p \in {o.body.pairs[i] : i \in 1..Len(o.body.pairs)} :
                        Lower(p.chainId) = CHAIN_ID},
          high |-> RawNull]
    ELSE IF call = "ath" /\ o.body.shape = "dict"
    THEN [pairs |-> {}, high |-> o.body.highest_price]
    ELSE NoData

NoAttempt == [client |-> "none", call |-> "none", kind |-> "none", code |-> 0,
              n |-> 0, open |-> FALSE, raised |-> FALSE, data |-> NoData]
Attempt(client, call, o, n, open, raised) ==
    [client |-> client, call |-> call, kind |-> o.kind, code |-> o.code,
     n |-> n, open |-> open, raised |-> raised, data |-> DataOf(call, o)]

\* ------------------------------------------------------- fetch a page
SolanaOnly(ps) == SelectSeq(ps, LAMBDA p : Lower(p.chainId) = CHAIN_ID)

\* fetch_pairs_page after get_json: data.get("pairs") or [], Solana pairs only
PageOf(r) ==
    IF r.exc # "none" THEN r
    ELSE IF r.val.shape # "dict" THEN Raised("AttributeError", "no attribute 'get'")
    ELSE Returned(SolanaOnly(r.val.pairs))

\* lo <= x <= hi
InRange(x, lo, hi) == FLeq(Some(lo), x) /\ FLeq(x, Some(hi))

\* the inline prefilter of scan_once
PassesPrefilter(p) ==
    LET vol == safe_float(p.volH24, None)
        liq == safe_float(p.liqUsd, None)
        inline_mcap == OrElse(safe_float(p.marketCap, None), safe_float(p.fdv, None))
    IN  /\ vol.some /\ liq.some
        /\ ~(FLt(vol, Some(cfg.volume_min)) \/ FLt(Some(cfg.volume_max), vol))
        /\ ~FLt(liq, Some(cfg.liq_min_usd))
        /\ ~(inline_mcap.some /\ ~InRange(inline_mcap, cfg.mcap_min, cfg.mcap_max))

\* the prefilter without its volume and liquidity bounds (scanner.py:218-219
\* removed): what is left is the presence test and the market-cap test
PrefilterMcapOnly(p) ==
    LET vol == safe_float(p.volH24, None)
        liq == safe_float(p.liqUsd, None)
        inline_mcap == OrElse(safe_float(p.marketCap, None), safe_float(p.fdv, None))
    IN  /\ vol.some /\ liq.some
        /\ ~(inline_mcap.some /\ ~InRange(inline_mcap, cfg.mcap_min, cfg.mcap_max))

\* mutant: except requests.RequestException
ScanCatchesRequestsOnly(e) == IsRequestException(e)

\* scan_once's except clause around fetch_pairs_page
ScanCatches(e) == TRUE

\* mutant: the loop's index taken as 0-based
ErrorEntryZeroBased(seed, page, msg) == [seed |-> seed, page |-> page - 1, error |-> msg]

\* the entry scan_once appends to errors
ErrorEntry(seed, page, msg) == [seed |-> seed, page |-> page, error |-> msg]

SeqUpTo(S, n) == UNION { [1..k -> S] : k \in 0..n }
DictBody(ps) == [shape |-> "dict", pairs |-> ps, highest_price |-> RawNull]
ListBody(ps) == [shape |-> "list", pairs |-> ps, highest_price |-> RawNull]
OtherBody == [shape |-> "other", pairs |-> <<>>, highest_price |-> RawNull]

SearchBodies ==
    {DictBody(ps) : ps \in SeqUpTo(world.pairs, MaxPagePairs)}
      \cup {ListBody(<<>>), OtherBody}

\* One HTTP attempt of the search request of page idx.  When it ends the
\* get_json call, the rest of the loop body runs up to time.sleep.
SearchAttempt ==
    /\ pc = "page"
    /\ \E o \in Outcomes(SearchBodies) :
         LET n == attempts + 1
             r == DexGetJsonOnce(o)
             seed == seeds[idx]
             log == IF attempts = 0
                    THEN Append(searchLog, [page |-> idx, seed |-> seed])
                    ELSE searchLog
         IN  IF DexRetries(r, n)
             THEN /\ attempts' = n
                  /\ searchLog' = log
                  /\ last' = Attempt("dex", "search", o, n, TRUE, FALSE)
                  /\ UNCHANGED << pc, fetched, prefiltered, errors, pageLog >>
             ELSE LET page == PageOf(r)
                      chunk == IF page.exc = "none" THEN page.val ELSE <<>>
                  IN  /\ attempts' = 0
                      /\ searchLog' = log
                      /\ last' = Attempt("dex", "search", o, n, FALSE, r.exc # "none")
                      /\ pageLog' = Append(pageLog,
                             [page |-> idx, failed |-> page.exc # "none", msg |-> page.msg,
                              got |-> Len(chunk), chunk |-> chunk,
                              kept |-> Len(SelectSeq(chunk, PassesPrefilter))])
                      /\ IF page.exc # "none" /\ ~ScanCatches(page.exc)
                         THEN /\ pc' = "raised"
                              /\ UNCHANGED << fetched, prefiltered, errors >>
                         ELSE /\ pc' = "sleep"
                              /\ errors' = IF page.exc = "none" THEN errors
                                           ELSE Append(errors, ErrorEntry(seed, idx, page.msg))
                              /\ fetched' = fetched + Len(chunk)
                              /\ prefiltered' = prefiltered \o SelectSeq(chunk, PassesPrefilter)
    /\ UNCHANGED << cfg, world, seeds, idx, best, fi, stats, rows, tps, stClients,
                    dexClients, out, sleeps, stLog, stSaw401, athLog, athNet, mcapLog >>

\* the loop's next iteration, or its end, after time.sleep(page_delay_s)
AfterSleep(i) == IF i + 1 <= Len(seeds) THEN "page" ELSE "dedup"

PageSleep ==
    /\ pc = "sleep"
    /\ sleeps' = sleeps + 1
    /\ idx' = idx + 1
    /\ pc' = AfterSleep(idx)
    /\ last' = NoAttempt
    /\ UNCHANGED << cfg, world, seeds, attempts, fetched, prefiltered, errors, best,
                    fi, stats, rows, tps, stClients, dexClients, out, searchLog,
                    stLog, stSaw401, athLog, athNet, pageLog, mcapLog >>

\* ------------------------------------------------------------- dedup
\* safe_float(x, 0) or 0.0
FloatOrZero(x) == LET f == safe_float(x, Some(0)) IN IF Truthy(f) THEN f ELSE Some(0)

Replaces(p, ex) ==
    LET liq == FloatOrZero(p.liqUsd)
        vol == FloatOrZero(p.volH24)
        liq0 == FloatOrZero(ex.liqUsd)
        vol0 == FloatOrZero(ex.volH24)
    IN  FLt(liq0, liq) \/ (FEq(liq, liq0) /\ FLt(vol0, vol))

BaseOf(p) == Strip(p.baseAddr)

RECURSIVE SelectBestFrom(_, _)
SelectBestFrom(pairs, acc) ==
    IF pairs = <<>> THEN acc
    ELSE LET p == Head(pairs)
             base == BaseOf(p)
             at == {i \in 1..Len(acc) : BaseOf(acc[i]) = base}
         IN  IF base = <<>> THEN SelectBestFrom(Tail(pairs), acc)
             ELSE IF at = {} THEN SelectBestFrom(Tail(pairs), Append(acc, p))
             ELSE LET i == CHOOSE i \in at : TRUE
                  IN  IF Replaces(p, acc[i])
                      THEN SelectBestFrom(Tail(pairs), [acc EXCEPT ![i] = p])
                      ELSE SelectBestFrom(Tail(pairs), acc)

select_best_pair_by_token(pairs) == SelectBestFrom(pairs, <<>>)

Dedup ==
    /\ pc = "dedup"
    /\ best' = select_best_pair_by_token(prefiltered)
    /\ fi' = 1
    /\ pc' = "filter"
    /\ last' = NoAttempt
    /\ UNCHANGED << cfg, world, seeds, idx, attempts, fetched, prefiltered, errors,
                    stats, rows, tps, stClients, dexClients, out, searchLog, sleeps,
                    stLog, stSaw401, athLog, athNet, pageLog, mcapLog >>

\* ------------------------------------------------ filter_candidates
Cur == best[fi]

PassesGates(p) ==
    LET price == safe_float(p.priceUsd, None)
        vol == safe_float(p.volH24, None)
        liq == safe_float(p.liqUsd, None)
    IN  /\ ~(BaseOf(p) = <<>> \/ ~price.some \/ ~vol.some \/ ~liq.some)
        /\ ~(FLt(vol, Some(cfg.volume_min)) \/ FLt(Some(cfg.volume_max), vol))
        /\ ~FLt(liq, Some(cfg.liq_min_usd))

\* mutant: the FDV read before the market cap
InlineMcapFdvFirst(p) ==
    LET m == safe_float(p.marketCap, None)
        f == safe_float(p.fdv, None)
    IN  IF IsPos(f) THEN f ELSE IF IsPos(m) THEN m ELSE None

\* _resolve_market_cap before its pool lookup
InlineMcap(p) ==
    LET m == safe_float(p.marketCap, None)
        f == safe_float(p.fdv, None)
    IN  IF IsPos(m) THEN m ELSE IF IsPos(f) THEN f ELSE None

\* _fetch_token_pools after get_json
PoolsOf(r) ==
    IF r.exc # "none" THEN <<>>
    ELSE IF r.val.shape \in {"list", "dict"} THEN SolanaOnly(r.val.pairs)
    ELSE <<>>

\* mutant: max(cands, default=0)
PoolsMcapZeroDefault(tpl) ==
    LET cands == {InlineMcap(tpl[i]).val : i \in {j \in 1..Len(tpl) : InlineMcap(tpl[j]).some}}
    IN  IF cands # {} THEN Some(Max(cands)) ELSE Some(0)

\* _resolve_market_cap after its pool lookup
PoolsMcap(tpl) ==
    LET cand(tp) == InlineMcap(tp)
        cands == {cand(tpl[i]).val : i \in {j \in 1..Len(tpl) : cand(tpl[j]).some}}
    IN  IF cands # {} THEN Some(Max(cands)) ELSE None

\* mutant: the all-time high read under a key the records do not have
InlineAthWrongKey(p) == safe_float(RawNull, None)

\* (pair.get("allTimeHigh") or {}).get("price")
InlineAth(p) == safe_float(p.athPrice, None)

\* max over the positive values of a field of the pools, or None
MaxPositive(vals) ==
    LET pos == {vals[i].val : i \in {j \in 1..Len(vals) : IsPos(vals[j])}}
    IN  IF pos # {} THEN Some(Max(pos)) ELSE None

PoolsAth(tpl) == MaxPositive([i \in 1..Len(tpl) |-> safe_float(tpl[i].athPrice, None)])
PoolsMaxPrice(tpl) == MaxPositive([i \in 1..Len(tpl) |-> safe_float(tpl[i].priceUsd, None)])

\* mutant: a strict comparison
EmitsRowStrict(price, ath) ==
    LET r == Ratio(price, ath) IN r.num * 100 < cfg.price_threshold_pct * r.den

\* pct <= (pct_threshold / 100.0)
EmitsRow(price, ath) == RatioLeqPct(Ratio(price, ath), cfg.price_threshold_pct)

Row(p, ath) ==
    [ baseAddress |-> BaseOf(p), pairAddress |-> Strip(p.pairAddress),
      priceUsd |-> safe_float(p.priceUsd, None).val, athPrice |-> ath,
      pctOfAth |-> Ratio(safe_float(p.priceUsd, None).val, ath),
      volumeH24 |-> safe_float(p.volH24, None),
      liquidityUsd |-> safe_float(p.liqUsd, None) ]

\* the loop of filter_candidates moves to the next pair
NextTok(st, rws, log, cl) ==
    /\ fi' = fi + 1
    /\ pc' = "filter"
    /\ attempts' = 0
    /\ tps' = <<>>
    /\ stats' = st
    /\ rows' = rws
    /\ athLog' = log
    /\ athNet' = FALSE
    /\ stClients' = cl

\* mutant: ath_found counted only for the pairs that give a row
AthDoneCountsRows(st, src, ath, cl, net) ==
    LET log == Append(athLog, [base |-> BaseOf(Cur), src |-> src, ath |-> ath,
                               net |-> net])
        price == safe_float(Cur.priceUsd, None)
    IN  IF ~ath.some \/ FLeq(ath, Some(0))
        THEN NextTok([st EXCEPT !.ath_missing = @ + 1], rows, log, cl)
        ELSE IF ~price.nan /\ ~ath.nan /\ EmitsRow(price.val, ath.val)
        THEN NextTok([st EXCEPT !.ath_found = @ + 1], Append(rows, Row(Cur, ath.val)),
                     log, cl)
        ELSE NextTok(st, rows, log, cl)

\* filter_candidates once the pair's ATH is settled (found by stage src, or not)
AthDone(st, src, ath, cl, net) ==
    LET log == Append(athLog, [base |-> BaseOf(Cur), src |-> src, ath |-> ath,
                               net |-> net])
        price == safe_float(Cur.priceUsd, None)
    IN  IF ~ath.some \/ FLeq(ath, Some(0))
        THEN NextTok([st EXCEPT !.ath_missing = @ + 1], rows, log, cl)
        ELSE NextTok([st EXCEPT !.ath_found = @ + 1],
                     IF ~price.nan /\ ~ath.nan /\ EmitsRow(price.val, ath.val)
                     THEN Append(rows, Row(Cur, ath.val)) ELSE rows,
                     log, cl)

\* mutant: the proxy used whatever the flag says
ProxyStageUnconditional(st, tpl, cl) ==
    IF tpl # <<>> /\ PoolsMaxPrice(tpl).some
    THEN AthDone(st, "proxy", PoolsMaxPrice(tpl), cl, TRUE)
    ELSE AthDone(st, "none", None, cl, TRUE)

\* the last stage of _ensure_ath: the pools' highest current price, if enabled
ProxyStage(st, tpl, cl) ==
    IF cfg.use_proxy_poolmax /\ tpl # <<>> /\ PoolsMaxPrice(tpl).some
    THEN AthDone(st, "proxy", PoolsMaxPrice(tpl), cl, TRUE)
    ELSE AthDone(st, "none", None, cl, TRUE)

\* the key filter_candidates builds its STClient from
FilterStKey == cfg.env_key

NewStClient(key) == [key |-> key, unauthorized |-> FALSE]

\* filter_candidates calls _ensure_ath: the STClient argument is built, and
\* _ensure_ath runs up to its first request
EnsureAthStart(st) ==
    LET cl == IF FilterStKey # "" THEN Append(stClients, NewStClient(FilterStKey))
              ELSE stClients
    IN  IF IsPos(InlineAth(Cur))
        THEN AthDone(st, "inline", InlineAth(Cur), cl, athNet)
        ELSE /\ stClients' = cl
             /\ pc' = IF Strip(Cur.pairAddress) # <<>> THEN "ath_pair" ELSE "ath_pools"
             /\ attempts' = 0
             /\ stats' = st
             /\ UNCHANGED << fi, tps, rows, athLog, athNet >>

\* filter_candidates from the market cap on
AfterMcap(mcap) ==
    IF ~mcap.some
    THEN NextTok([stats EXCEPT !.mcap_missing = @ + 1], rows, athLog, stClients)
    ELSE IF ~InRange(mcap, cfg.mcap_min, cfg.mcap_max)
    THEN NextTok([stats EXCEPT !.mcap_out = @ + 1], rows, athLog, stClients)
    ELSE LET st == [stats EXCEPT !.mcap_ok = @ + 1]
             ath == InlineAth(Cur)
         IN  IF ~ath.some \/ FLeq(ath, Some(0))
             THEN EnsureAthStart(st)
             ELSE AthDone(st, "inline", ath, stClients, athNet)

McapEntry(mcap, looked, failed, tpl) ==
    [base |-> BaseOf(Cur), pair |-> Cur, mcap |-> mcap, looked |-> looked,
     failed |-> failed, pools |-> {tpl[i] : i \in 1..Len(tpl)}]

\* the loop body of filter_candidates up to its first request
FilterNext ==
    /\ pc = "filter"
    /\ fi <= Len(best)
    /\ IF ~PassesGates(Cur)
       THEN NextTok(stats, rows, athLog, stClients) /\ UNCHANGED mcapLog
       ELSE IF InlineMcap(Cur).some
       THEN /\ AfterMcap(InlineMcap(Cur))
            /\ mcapLog' = Append(mcapLog, McapEntry(InlineMcap(Cur), FALSE, FALSE, <<>>))
       ELSE /\ pc' = "mcap_pools"
            /\ attempts' = 0
            /\ UNCHANGED << fi, tps, stats, rows, athLog, athNet, stClients, mcapLog >>
    /\ last' = NoAttempt
    /\ UNCHANGED << cfg, world, seeds, idx, fetched, prefiltered, errors, best,
                    dexClients, out, searchLog, sleeps, stLog, stSaw401, pageLog >>

\* the token lookup answers with an array of pools, or with {"pairs": [...]}
PoolBodies ==
    {ListBody(ps) : ps \in SeqUpTo(world.pools, MaxPools)}
      \cup {DictBody(ps) : ps \in SeqUpTo(world.pools, 1)}
      \cup {OtherBody}

\* one HTTP attempt of the pool lookup of _resolve_market_cap
McapPoolsAttempt ==
    /\ pc = "mcap_pools"
    /\ \E o \in Outcomes(PoolBodies) :
         LET n == attempts + 1
             r == DexGetJsonOnce(o)
         IN  IF DexRetries(r, n)
             THEN /\ attempts' = n
                  /\ last' = Attempt("dex", "pools", o, n, TRUE, FALSE)
                  /\ UNCHANGED << pc, fi, tps, stats, rows, athLog, athNet, stClients,
                                  mcapLog >>
             ELSE /\ last' = Attempt("dex", "pools", o, n, FALSE, r.exc # "none")
                  /\ AfterMcap(PoolsMcap(PoolsOf(r)))
                  /\ mcapLog' = Append(mcapLog, McapEntry(PoolsMcap(PoolsOf(r)), TRUE,
                                                         r.exc # "none", PoolsOf(r)))
    /\ UNCHANGED << cfg, world, seeds, idx, fetched, prefiltered, errors, best,
                    dexClients, out, searchLog, sleeps, stLog, stSaw401, pageLog >>

\* the pair lookup answers with zero or one pair
PairBodies ==
    {DictBody(ps) : ps \in SeqUpTo(world.pools, 1)} \cup {ListBody(<<>>), OtherBody}

\* _ensure_ath after its pair lookup: the first pair's ATH, if any
PairLookupAth(r) ==
    IF r.exc # "none" \/ r.val.shape # "dict" \/ r.val.pairs = <<>> THEN None
    ELSE InlineAth(r.val.pairs[1])

\* one HTTP attempt of the pair lookup of _ensure_ath
AthPairAttempt ==
    /\ pc = "ath_pair"
    /\ \E o \in Outcomes(PairBodies) :
         LET n == attempts + 1
             r == DexGetJsonOnce(o)
         IN  IF DexRetries(r, n)
             THEN /\ attempts' = n
                  /\ last' = Attempt("dex", "pair", o, n, TRUE, FALSE)
                  /\ athNet' = TRUE
                  /\ UNCHANGED << pc, fi, tps, stats, rows, athLog, stClients >>
             ELSE /\ last' = Attempt("dex", "pair", o, n, FALSE, r.exc # "none")
                  /\ IF IsPos(PairLookupAth(r))
                     THEN AthDone(stats, "pair", PairLookupAth(r), stClients, TRUE)
                     ELSE /\ pc' = "ath_pools"
                          /\ attempts' = 0
                          /\ athNet' = TRUE
                          /\ UNCHANGED << fi, tps, stats, rows, athLog, stClients >>
    /\ UNCHANGED << cfg, world, seeds, idx, fetched, prefiltered, errors, best,
                    dexClients, out, searchLog, sleeps, stLog, stSaw401, pageLog,
                    mcapLog >>

\* _ensure_ath's  "if st and base_addr"  for the client filter_candidates passed
HasSt == FilterStKey # ""

\* one HTTP attempt of the pool lookup of _ensure_ath
AthPoolsAttempt ==
    /\ pc = "ath_pools"
    /\ \E o \in Outcomes(PoolBodies) :
         LET n == attempts + 1
             r == DexGetJsonOnce(o)
             tpl == PoolsOf(r)
         IN  IF DexRetries(r, n)
             THEN /\ attempts' = n
                  /\ last' = Attempt("dex", "pools", o, n, TRUE, FALSE)
                  /\ athNet' = TRUE
                  /\ UNCHANGED << pc, fi, tps, stats, rows, athLog, stClients >>
             ELSE /\ last' = Attempt("dex", "pools", o, n, FALSE, r.exc # "none")
                  /\ IF PoolsAth(tpl).some
                     THEN AthDone(stats, "pools", PoolsAth(tpl), stClients, TRUE)
                     ELSE IF HasSt
                     THEN /\ pc' = "ath_st"
                          /\ attempts' = 0
                          /\ tps' = tpl
                          /\ athNet' = TRUE
                          /\ UNCHANGED << fi, stats, rows, athLog, stClients >>
                     ELSE ProxyStage(stats, tpl, stClients)
    /\ UNCHANGED << cfg, world, seeds, idx, fetched, prefiltered, errors, best,
                    dexClients, out, searchLog, sleeps, stLog, stSaw401, pageLog,
                    mcapLog >>

\* -------------------------------------------------------- STClient
StBodies ==
    {[shape |-> "dict", pairs |-> <<>>, highest_price |-> h] : h \in world.highs}
      \cup {OtherBody}

\* mutant: no special case for 404, which raise_for_status then raises
STGetAthOnceNo404(o) ==
    IF o.kind = "net" THEN Raised("ConnectionError", "ConnectionError")
    ELSE IF o.code = 401 THEN Returned(None)
    ELSE IF o.code \in RetryStatuses THEN Raised("RequestException", ToString(o.code))
    ELSE IF o.code >= 400 THEN Raised("HTTPError", ToString(o.code) \o " Client Error")
    ELSE IF o.kind = "badjson" THEN Raised(o.exc, "Expecting value")
    ELSE IF o.body.shape # "dict" THEN Raised("AttributeError", "no attribute 'get'")
    ELSE Returned(safe_float(o.body.highest_price, None))

\* the body of STClient.get_token_ath: one attempt
STGetAthOnce(o) ==
    IF o.kind = "net" THEN Raised("ConnectionError", "ConnectionError")
    ELSE IF o.code = 401 THEN Returned(None)
    ELSE IF o.code = 404 THEN Returned(None)
    ELSE IF o.code \in RetryStatuses THEN Raised("RequestException", ToString(o.code))
    ELSE IF o.code >= 400 THEN Raised("HTTPError", ToString(o.code) \o " Client Error")
    ELSE IF o.kind = "badjson" THEN Raised(o.exc, "Expecting value")
    ELSE IF o.body.shape # "dict" THEN Raised("AttributeError", "no attribute 'get'")
    ELSE Returned(safe_float(o.body.highest_price, None))

\* self.unauthorized after the attempt
STUnauthorizedAfter(before, o) == before \/ (o.kind = "status" /\ o.code = 401)

STRetries(r, n) == IsRequestException(r.exc) /\ n < STMaxAttempts

\* one HTTP attempt of st.get_token_ath(base_addr), st being the newest client
StAttempt ==
    /\ pc = "ath_st"
    /\ \E o \in Outcomes(StBodies) :
         LET n == attempts + 1
             r == STGetAthOnce(o)
             inst == Len(stClients)
             cl == [stClients EXCEPT ![inst].unauthorized = STUnauthorizedAfter(@, o)]
         IN  /\ stLog' = IF attempts = 0
                         THEN Append(stLog, [mint |-> BaseOf(Cur), key |-> stClients[inst].key,
                                             inst |-> inst])
                         ELSE stLog
             /\ stSaw401' = (stSaw401 \/ (o.kind = "status" /\ o.code = 401))
             /\ IF STRetries(r, n)
                THEN /\ attempts' = n
                     /\ last' = Attempt("st", "ath", o, n, TRUE, FALSE)
                     /\ stClients' = cl
                     /\ athNet' = TRUE
                     /\ UNCHANGED << pc, fi, tps, stats, rows, athLog >>
                ELSE /\ last' = Attempt("st", "ath", o, n, FALSE, r.exc # "none")
                     /\ IF r.exc = "none" /\ IsPos(r.val)
                        THEN AthDone(stats, "st", r.val, cl, TRUE)
                        ELSE ProxyStage(stats, tps, cl)
    /\ UNCHANGED << cfg, world, seeds, idx, fetched, prefiltered, errors, best,
                    dexClients, out, searchLog, sleeps, pageLog, mcapLog >>

\* ---------------------------------------------------------- the result
ZeroStats == [mcap_ok |-> 0, mcap_missing |-> 0, mcap_out |-> 0, ath_found |-> 0,
              ath_missing |-> 0]
NoResult == [returned |-> FALSE, stats |-> ZeroStats, search_pairs |-> 0, prefilter |-> 0,
             unique_tokens |-> 0, candidates_after_threshold |-> 0, rows |-> <<>>,
             st_enabled |-> FALSE, debug |-> FALSE, errors |-> <<>>, used_seeds |-> <<>>]

\* filter_candidates returns; scan_once builds and returns its result
Assemble ==
    /\ pc = "filter"
    /\ fi > Len(best)
    /\ out' = [returned |-> TRUE, stats |-> stats, search_pairs |-> fetched,
               prefilter |-> Len(prefiltered), unique_tokens |-> Len(best),
               candidates_after_threshold |-> Len(rows), rows |-> rows,
               st_enabled |-> (cfg.st_api_key # ""), debug |-> cfg.debug,
               errors |-> IF cfg.debug THEN errors ELSE <<>>,
               used_seeds |-> IF cfg.debug THEN seeds ELSE <<>>]
    /\ pc' = "done"
    /\ last' = NoAttempt
    /\ UNCHANGED << cfg, world, seeds, idx, attempts, fetched, prefiltered, errors,
                    best, fi, stats, rows, tps, stClients, dexClients, searchLog,
                    sleeps, stLog, stSaw401, athLog, athNet, pageLog, mcapLog >>

\* ------------------------------------------------------------- inputs
Cfg(seeds_env, max_pages, min_len, st_key, env_key, proxy, debug) ==
    [ volume_min |-> VOLUME_MIN, volume_max |-> VOLUME_MAX,
      price_threshold_pct |-> PRICE_THRESHOLD_PCT, liq_min_usd |-> LIQ_MIN_USD,
      mcap_min |-> MCAP_MIN, mcap_max |-> MCAP_MAX,
      seeds_from_env |-> seeds_env, max_pages |-> max_pages, min_seed_len |-> min_len,
      st_api_key |-> st_key, env_key |-> env_key, use_proxy_poolmax |-> proxy,
      debug |-> debug ]

Pair(chain, base, pa, price, vol, liq, mc, fdv, ath) ==
    [ chainId |-> chain, baseAddr |-> base, pairAddress |-> pa, priceUsd |-> price,
      volH24 |-> vol, liqUsd |-> liq, marketCap |-> mc, fdv |-> fdv, athPrice |-> ath ]

AddrA == <<"A">>
AddrB == <<"B">>
AddrC == <<"C">>
PairP == <<"P">>
PairQ == <<"Q">>

\* a pair that passes every gate: the spec's end-to-end example
Good(base, pa, price, ath) ==
    Pair("solana", base, pa, RawNum(price), RawNum(500000), RawNum(50000),
         RawNum(5000000), RawNull, ath)
\* a pool as the token and pair lookups serve it
Pool(chain, price, mc, fdv, ath) ==
    Pair(chain, AddrB, PairQ, price, RawNum(500000), RawNum(50000), mc, fdv, ath)

World(pairs, pools, highs, statuses) ==
    [pairs |-> pairs, pools |-> pools, highs |-> highs, statuses |-> statuses]

\* page scenarios: one pair that needs no lookup, few statuses
WorldPages ==
    World({Good(AddrA, PairP, 10, RawNum(20))}, {}, {}, {429, 404})
WorldEmpty == World({}, {}, {}, {503})

\* ATH scenarios: A has an inline ATH; B and C need the resolver (C has no pair
\* address); the lookups serve pools with and without an ATH
AthPools ==
    { Pool("solana", RawNum(80), RawNum(5000000), RawNull, RawNum(100)),
      Pool("solana", RawNum(120), RawNum(5000000), RawNull, RawNull),
      Pool("ethereum", RawNum(80), RawNum(5000000), RawNull, RawNum(500)) }
WorldAthAB ==
    World({Good(AddrA, PairP, 10, RawNum(20)), Good(AddrB, PairQ, 75, RawNull)},
          AthPools, {RawNum(150), RawNull}, ErrStatuses)
WorldAthBC ==
    World({Good(AddrB, PairQ, 75, RawNull), Good(AddrC, <<>>, 90, RawNum(0))},
          AthPools, {RawNum(150), RawNull}, ErrStatuses)

\* threshold scenarios: inline ATH 100 and prices on both sides of 85 %,
\* a negative price, and prices that do not parse
Priced(base, price) ==
    Pair("solana", base, PairP, price, RawNumStr(500000), RawNum(50000),
         RawNum(5000000), RawNull, RawNum(100))
WorldThr ==
    World({ Priced(AddrA, RawNum(75)), Priced(AddrB, RawNum(90)),
            Priced(AddrC, RawNum(85)), Priced(<<"D">>, RawNum(-1)),
            Priced(<<"E">>, RawText), Priced(<<"F">>, RawNum(86)) },
          {}, {}, {404})

\* market-cap scenarios: no inline market cap, so the pools decide
NoMcap(base, mc, fdv) ==
    Pair("solana", base, PairP, RawNum(50), RawNum(500000), RawNum(50000), mc, fdv,
         RawNum(100))
WorldMcap ==
    World({ NoMcap(AddrA, RawNum(0), RawNum(0)), NoMcap(AddrB, RawNull, RawText) },
          { Pool("solana", RawNum(80), RawNum(5000000), RawNull, RawNull),
            Pool("solana", RawNum(80), RawNum(0), RawNum(3000000), RawNull),
            Pool("solana", RawNum(80), RawNum(99000000), RawNull, RawNull),
            Pool("solana", RawNum(80), RawNull, RawToken, RawNull) },
          {}, {503, 404})

\* dedup scenarios: several pools of token A that differ in liquidity and
\* volume or tie in both, a pair without a base address, a pool whose
\* liquidity reads "-nan", the deepest pool of A with a 24h volume below the
\* minimum, and a pool of another token
Pooled(base, pa, liq, vol) ==
    Pair("solana", base, pa, RawNum(50), vol, liq, RawNum(5000000), RawNull, RawNum(100))
WorldDedupA ==
    World({ Pooled(AddrA, PairP, RawNum(50000), RawNum(900000)),
            Pooled(AddrA, PairQ, RawNum(60000), RawNum(200000)),
            Pooled(AddrA, <<"R">>, RawNum(60000), RawNum(500000)),
            Pooled(AddrA, <<"S">>, RawNum(60000), RawNum(500000)) },
          {}, {}, {404})
WorldDedupB ==
    World({ Pooled(AddrA, <<"R">>, RawNum(60000), RawNum(500000)),
            Pooled(<<" ", " ">>, PairQ, RawNum(60000), RawNum(500000)),
            Pooled(AddrA, <<"N">>, RawNanStr, RawNum(500000)),
            Pooled(AddrA, <<"V">>, RawNum(70000), RawNum(50)),
            Pooled(AddrB, PairP, RawNum(50000), RawNum(500000)) },
          {}, {}, {404})

SeedsTwo == << "a", "a", ",", "b", "b" >>
SeedsThree == << "a", "a", ",", " ", "b", "b", ",", "c" >>
SeedsDup == << "a", "a", ",", "a", "a" >>
SeedsFive == << "a", "a", ",", "b", "b", ",", "c", "c", ",", "d", "d", ",", "e", "e" >>
SeedsOne == << "a", "a" >>

PageScenarios ==
    { [cfg |-> Cfg(SeedsThree, mp, ml, "", "", FALSE, TRUE), world |-> WorldPages] :
          mp \in {-1, 0, 1, 2}, ml \in {1, 2, 3} }
      \cup { [cfg |-> Cfg(<<>>, mp, 2, "", "", FALSE, TRUE), world |-> WorldPages] :
                 mp \in {1, 2} }
      \cup { [cfg |-> Cfg(SeedsDup, 0, 2, "", "", FALSE, FALSE), world |-> WorldPages],
             [cfg |-> Cfg(SeedsFive, 3, 2, "", "", FALSE, TRUE), world |-> WorldEmpty] }

AthScenarios ==
    { [cfg |-> Cfg(SeedsOne, 8, 2, k[1], k[2], px, FALSE), world |-> WorldAthBC] :
          k \in {<<"", "">>, <<"K", "K">>, <<"K", "">>, <<"", "E">>}, px \in BOOLEAN }
      \cup { [cfg |-> Cfg(SeedsOne, 8, 2, "K", "K", px, FALSE), world |-> WorldAthAB] :
                 px \in BOOLEAN }

DataScenarios ==
    { [cfg |-> Cfg(SeedsOne, 8, 2, "", "", FALSE, FALSE), world |-> w] :
          w \in {WorldThr, WorldMcap} }

DedupScenarios ==
    { [cfg |-> Cfg(SeedsTwo, 8, 2, "", "", FALSE, FALSE), world |-> WorldDedupA],
      [cfg |-> Cfg(SeedsOne, 8, 2, "", "", FALSE, FALSE), world |-> WorldDedupB] }

Scenarios == PageScenarios \cup AthScenarios \cup DataScenarios \cup DedupScenarios

InitWith(S) ==
    /\ \E sc \in S : cfg = sc.cfg /\ world = sc.world
    /\ seeds = _get_seeds(cfg.max_pages, cfg.seeds_from_env, cfg.min_seed_len)
    /\ idx = 1
    /\ pc = IF Len(seeds) >= 1 THEN "page" ELSE "dedup"
    /\ attempts = 0
    /\ fetched = 0 /\ prefiltered = <<>> /\ errors = <<>>
    /\ best = <<>> /\ fi = 1
    /\ stats = ZeroStats /\ rows = <<>> /\ tps = <<>>
    /\ dexClients = 1
    /\ stClients = IF cfg.st_api_key # "" THEN <<NewStClient(cfg.st_api_key)>> ELSE <<>>
    /\ out = NoResult
    /\ searchLog = <<>> /\ sleeps = 0 /\ last = NoAttempt
    /\ stLog = <<>> /\ stSaw401 = FALSE /\ athLog = <<>>
    /\ athNet = FALSE /\ pageLog = <<>> /\ mcapLog = <<>>

Init == InitWith(Scenarios)

Next ==
    \/ SearchAttempt
    \/ PageSleep
    \/ Dedup
    \/ FilterNext
    \/ McapPoolsAttempt
    \/ AthPairAttempt
    \/ AthPoolsAttempt
    \/ StAttempt
    \/ Assemble

Spec == Init /\ [][Next]_vars

\* scan_once is sequential code: a step that can be taken is taken
FairSpec == Init /\ [][Next]_vars /\ WF_vars(Next)

\* ------------------------------------------- filter_candidates on its own
\* filter_candidates called directly, with pairs that went through no
\* prefilter: the market cap given as 0, negative, absent, or only as FDV
CallPairs ==
    { NoMcap(AddrA, RawNum(0), RawNum(0)),
      NoMcap(AddrB, RawNum(-5), RawNull),
      NoMcap(AddrC, RawNum(-5), RawNum(5000000)),
      NoMcap(AddrA, RawNull, RawNum(99000000)),
      NoMcap(AddrB, RawNum(5000000), RawNum(99000000)) }
\* pools: a market cap that wins over a larger FDV, an FDV behind a zero market
\* cap, and a pool with neither
CallPools ==
    { Pool("solana", RawNum(80), RawNum(5000000), RawNum(99000000), RawNull),
      Pool("solana", RawNum(80), RawNum(0), RawNum(3000000), RawNull),
      Pool("solana", RawNum(80), RawNull, RawToken, RawNull) }
WorldCallMcap == World({}, CallPools, {}, {503})
WorldCallAth ==
    World({},
          { Pool("solana", RawNum(80), RawNum(5000000), RawNull, RawNum(100)),
            Pool("solana", RawNum(120), RawNum(5000000), RawNull, RawNull) },
          {RawNum(150), RawNull}, {401, 503})
CallScenarios ==
    { [cfg |-> Cfg(<<>>, 0, 2, "", "", FALSE, FALSE), world |-> WorldCallMcap,
       inputs |-> CallPairs],
      [cfg |-> Cfg(<<>>, 0, 2, "E", "E", TRUE, FALSE), world |-> WorldCallAth,
       inputs |-> {Good(AddrB, PairQ, 75, RawNull)}] }

\* the state at the call: pairs is the argument, nothing was fetched
FilterInit ==
    /\ \E sc \in CallScenarios :
          /\ cfg = sc.cfg /\ world = sc.world
          /\ best \in SeqUpTo(sc.inputs, MaxCallPairs)
    /\ seeds = <<>> /\ idx = 1 /\ pc = "filter" /\ attempts = 0
    /\ fetched = 0 /\ prefiltered = <<>> /\ errors = <<>> /\ fi = 1
    /\ stats = ZeroStats /\ rows = <<>> /\ tps = <<>>
    /\ dexClients = 1
    /\ stClients = IF cfg.st_api_key # "" THEN <<NewStClient(cfg.st_api_key)>> ELSE <<>>
    /\ out = NoResult
    /\ searchLog = <<>> /\ sleeps = 0 /\ last = NoAttempt
    /\ stLog = <<>> /\ stSaw401 = FALSE /\ athLog = <<>>
    /\ athNet = FALSE /\ pageLog = <<>> /\ mcapLog = <<>>

\* return rows, stats
FilterReturn ==
    /\ pc = "filter"
    /\ fi > Len(best)
    /\ pc' = "returned"
    /\ last' = NoAttempt
    /\ UNCHANGED << cfg, world, seeds, idx, attempts, fetched, prefiltered, errors,
                    best, fi, stats, rows, tps, stClients, dexClients, out, searchLog,
                    sleeps, stLog, stSaw401, athLog, athNet, pageLog, mcapLog >>

FilterCall ==
    \/ FilterNext
    \/ McapPoolsAttempt
    \/ AthPairAttempt
    \/ AthPoolsAttempt
    \/ StAttempt
    \/ FilterReturn

FilterSpec == FilterInit /\ [][FilterCall]_vars

\* ------------------------------------------------------------ properties
PairOfBase(b) == CHOOSE p \in {best[i] : i \in 1..Len(best)} : BaseOf(p) = b
RawPositive(x) == x.k \in {"num", "numstr"} /\ x.v > 0
HasRow(b) == \E i \in 1..Len(rows) : rows[i].baseAddress = b
InBest(p) == \E i \in 1..Len(best) : best[i] = p
FetchOver == pc \notin {"page", "sleep"}
RECURSIVE SumGot(_)
SumGot(s) == IF s = <<>> THEN 0 ELSE Head(s).got + SumGot(Tail(s))
RECURSIVE SumKept(_)
SumKept(s) == IF s = <<>> THEN 0 ELSE Head(s).kept + SumKept(Tail(s))

\* C1: once a request to the secondary ATH provider has been answered 401, no
\* further request is sent to that provider during the scan (stated for the
\* deployment's configuration: api/scan.py passes the environment's key).
C1_NoRequestAfter401 ==
    [][(stSaw401 /\ cfg.st_api_key = cfg.env_key) => stLog' = stLog]_vars

\* C2: a page whose fetch raises stops nothing: pages are handled one by one
\* in order, all of them by the time the loop is over; a failed page adds no
\* pair to search_pairs or to the prefiltered buffer; and the errors log is
\* exactly the failed pages, in page order, each with its seed, its 1-based
\* page index and the error text.
FailedPages == SelectSeq(pageLog, LAMBDA e : e.failed)
C2_PageFailuresIsolated ==
    /\ \A i \in 1..Len(pageLog) :
         /\ pageLog[i].page = i
         /\ pageLog[i].failed => (pageLog[i].got = 0 /\ pageLog[i].kept = 0)
    /\ FetchOver => Len(pageLog) = Len(seeds)
    /\ fetched = SumGot(pageLog)
    /\ Len(prefiltered) = SumKept(pageLog)
    /\ Len(errors) = Len(FailedPages)
    /\ \A j \in 1..Len(FailedPages) :
         errors[j] = [seed |-> seeds[FailedPages[j].page],
                      page |-> FailedPages[j].page,
                      error |-> FailedPages[j].msg]
C2_Witness ==
    /\ pc = "done" /\ Len(pageLog) = 3
    /\ pageLog[1].failed /\ pageLog[2].kept > 0 /\ pageLog[3].failed
    /\ Len(errors) = 2 /\ errors[2].page = 3

\* C3: whatever the requests meet and however the numeric fields of the pairs
\* read, scan_once raises nothing, never goes back to an earlier stage
\* (fetch, dedup, filter, result) and ends by returning its result.
StageOf(p) ==
    CASE p \in {"page", "sleep"} -> 2
      [] p = "dedup" -> 3
      [] p \in {"filter", "mcap_pools", "ath_pair", "ath_pools", "ath_st"} -> 4
      [] p = "done" -> 5
      [] OTHER -> 0
LastRetryable ==
    last.kind = "net" \/ (last.kind = "status" /\ last.code \in {429, 500, 502, 503, 504})
C4_DexRetryAtMostFive ==
    last.client = "dex" =>
        /\ last.n <= 5
        /\ (LastRetryable /\ last.n < 5) => last.open
        /\ last.kind = "ok" => (~last.open /\ ~last.raised)
        /\ (LastRetryable /\ last.n = 5) => (~last.open /\ last.raised)
C4_Witness ==
    /\ last.client = "dex" /\ last.kind = "status" /\ last.code = 504
    /\ last.n = 5 /\ ~last.open /\ last.raised

\* C5: a get_json attempt answered with a non-2xx status outside
\* 429/500/502/503/504 ends the call with an error: no further attempt.
C5_OtherStatusNotRetried ==
    (last.client = "dex" /\ last.kind = "status" /\ last.code \in {400, 401, 403, 404})
        => (~last.open /\ last.raised)

\* C6 (as amended): one search call per entry of the seed list (the configured
\* entries trimmed, those shorter than min_seed_len dropped, in the given
\* order, cut to max_pages entries when max_pages > 0), in list order, page
\* i + 1 only after page i ended and the delay elapsed; no entry of the list
\* is queried twice.
ClaimedSeeds ==
    LET given == SplitComma(cfg.seeds_from_env)
        kept == SelectSeq([i \in 1..Len(given) |-> Strip(given[i])],
                          LAMBDA e : Len(e) >= cfg.min_seed_len)
        n == IF cfg.max_pages > 0 /\ cfg.max_pages < Len(kept)
             THEN cfg.max_pages ELSE Len(kept)
    IN  [i \in 1..n |-> kept[i]]
C6_OneSearchPerEntry ==
    /\ cfg.seeds_from_env # <<>> => seeds = ClaimedSeeds
    /\ Len(searchLog) <= Len(seeds)
    /\ \A i \in 1..Len(searchLog) : searchLog[i] = [page |-> i, seed |-> seeds[i]]
    /\ Len(searchLog) <= sleeps + 1
    /\ Len(searchLog) <= Len(pageLog) + 1
    /\ FetchOver => (Len(searchLog) = Len(seeds) /\ sleeps = Len(seeds))
C6_Witness ==
    /\ pc = "done" /\ cfg.seeds_from_env = SeedsFive /\ cfg.max_pages = 3
    /\ searchLog = << [page |-> 1, seed |-> <<"a", "a">>],
                      [page |-> 2, seed |-> <<"b", "b">>],
                      [page |-> 3, seed |-> <<"c", "c">>] >>
\* C6 as stated: the above, and no seed is queried twice.
C6_NoSeedQueriedTwice ==
    /\ C6_OneSearchPerEntry
    /\ \A i, j \in 1..Len(searchLog) :
         i # j => searchLog[i].seed # searchLog[j].seed

\* C7: a pair whose inline all-time high is positive gets its ATH without any
\* request (no pair lookup, no pool lookup, no secondary-provider request),
\* and the ATH it gets is the inline value.
C7_InlineAthNoNetwork ==
    /\ (pc \in {"ath_pair", "ath_pools", "ath_st"} \/ athNet) => ~RawPositive(Cur.athPrice)
    /\ \A i \in 1..Len(athLog) :
         LET p == PairOfBase(athLog[i].base)
         IN  RawPositive(p.athPrice) =>
                 /\ ~athLog[i].net
                 /\ athLog[i].src = "inline"
                 /\ athLog[i].ath = Some(p.athPrice.v)
    /\ \A i \in 1..Len(rows) :
         LET p == PairOfBase(rows[i].baseAddress)
         IN  RawPositive(p.athPrice) => rows[i].athPrice = p.athPrice.v
C7_Witness ==
    /\ pc = "done"
    /\ \E i \in 1..Len(athLog) : athLog[i].src = "inline" /\ HasRow(athLog[i].base)
    /\ \E j \in 1..Len(athLog) : athLog[j].net

\* C8: with a non-empty st_api_key, every token that gets no positive ATH
\* from the inline field, the pair lookup and the pool lookup is looked up at
\* the secondary provider, by its base address and with that key, before the
\* proxy is considered; with an empty st_api_key the provider is never asked;
\* st_enabled tells whether st_api_key is non-empty.
C8_SecondaryAskedIffKeyed ==
    /\ cfg.st_api_key # "" =>
         \A i \in 1..Len(athLog) :
             athLog[i].src \in {"st", "proxy", "none"} =>
                 \E j \in 1..Len(stLog) :
                     stLog[j].mint = athLog[i].base /\ stLog[j].key = cfg.st_api_key
    /\ cfg.st_api_key = "" => stLog = <<>>
    /\ out.returned => (out.st_enabled <=> cfg.st_api_key # "")

\* C9: a pair that passed the presence, volume, liquidity and market-cap gates
\* and has an ATH > 0 gets a row exactly when price / ATH <= threshold_pct / 100,
\* the boundary included: at 85, 75/100 and 85/100 pass and 90/100 fails; the
\* single pair with price 10 and inline ATH 20 gives one row of ratio 1/2.
EndToEndPair == Good(AddrA, PairP, 10, RawNum(20))
C9_RowIffWithinThreshold ==
    /\ \A i \in 1..Len(athLog) :
         LET e == athLog[i]
             p == PairOfBase(e.base)
         IN  (e.ath.some /\ e.ath.val > 0) =>
                 (HasRow(e.base) <=>
                      p.priceUsd.v * 100 <= cfg.price_threshold_pct * e.ath.val)
    /\ (pc = "done" /\ cfg.price_threshold_pct = 85) =>
         /\ InBest(Priced(AddrA, RawNum(75))) => HasRow(AddrA)
         /\ InBest(Priced(AddrC, RawNum(85))) => HasRow(AddrC)
         /\ InBest(Priced(AddrB, RawNum(90))) => ~HasRow(AddrB)
    /\ (pc = "done" /\ best = <<EndToEndPair>>) =>
         /\ Len(out.rows) = 1
         /\ out.rows[1].pctOfAth = [num |-> 1, den |-> 2]
         /\ out.candidates_after_threshold = 1
C9_Witness ==
    /\ pc = "done"
    /\ InBest(Priced(AddrC, RawNum(85))) /\ HasRow(AddrC)
    /\ InBest(Priced(AddrB, RawNum(90))) /\ ~HasRow(AddrB)

\* C10: every row has athPrice > 0, priceUsd >= 0 and pctOfAth = priceUsd /
\* athPrice, and no token whose ATH is missing or zero has a row.
C10_RowInvariant ==
    /\ \A i \in 1..Len(rows) :
         /\ rows[i].athPrice > 0
         /\ rows[i].priceUsd >= 0
         /\ rows[i].pctOfAth.num * rows[i].athPrice = rows[i].priceUsd * rows[i].pctOfAth.den
    /\ \A i \in 1..Len(athLog) :
         (~athLog[i].ath.some \/ athLog[i].ath.val <= 0) => ~HasRow(athLog[i].base)

\* C11: select_best_pair_by_token keeps exactly one pair per distinct non-empty
\* base address of its input and drops the pairs without an address; the pair
\* kept for an address has liquidity >= that of every other pair of the
\* address, among those of maximal liquidity the highest 24h volume, and among
\* those still tied it is the first of the input.  (The other pairs are those
\* whose liquidity is a number.)
Liquidity(p) == safe_float(p.liqUsd, Some(0))
Volume24(p) == safe_float(p.volH24, Some(0))
Bases(ps) == {BaseOf(ps[i]) : i \in 1..Len(ps)} \ {<<>>}
SameBase(ps, b) == {i \in 1..Len(ps) : BaseOf(ps[i]) = b}
Numeric(f) == f.some /\ ~f.nan
Deepest(ps, b) ==
    {i \in SameBase(ps, b) :
        \A j \in SameBase(ps, b) \ {i} :
            /\ Numeric(Liquidity(ps[j])) => FLeq(Liquidity(ps[j]), Liquidity(ps[i]))
            /\ (FEq(Liquidity(ps[j]), Liquidity(ps[i])) /\ Numeric(Volume24(ps[j])))
                   => FLeq(Volume24(ps[j]), Volume24(ps[i]))}
DedupOver == pc \in {"filter", "mcap_pools", "ath_pair", "ath_pools", "ath_st", "done"}
C11_BestPairSelected ==
    DedupOver =>
        /\ {BaseOf(best[i]) : i \in 1..Len(best)} = Bases(prefiltered)
        /\ Len(best) = Cardinality(Bases(prefiltered))
        /\ \A i \in 1..Len(best) :
               LET top == Deepest(prefiltered, BaseOf(best[i]))
               IN  /\ top # {}
                   /\ best[i] = prefiltered[CHOOSE k \in top : \A j \in top : k <= j]

\* C12: in the candidate filter, a pair that passed the presence, volume and
\* liquidity checks, whose inline marketCap and FDV are both 0, absent or
\* negative, and for which the pool lookup fails or gives no positive market
\* cap or FDV, adds exactly one to mcap_missing, leaves mcap_out and mcap_ok
\* alone, starts no ATH resolution and gives no row: the loop goes on with the
\* next pair.
NonPositiveRaw(x) == x.k \in {"null", "token", "text"} \/ (x.k \in {"num", "numstr"} /\ x.v <= 0)
NothingInPools(e) ==
    e.failed \/ \A tp \in e.pools : NonPositiveRaw(tp.marketCap) /\ NonPositiveRaw(tp.fdv)
McapSettled == Len(mcapLog') = Len(mcapLog) + 1
C12_McapMissingCounted ==
    [][ (/\ McapSettled
         /\ NonPositiveRaw(mcapLog'[Len(mcapLog')].pair.marketCap)
         /\ NonPositiveRaw(mcapLog'[Len(mcapLog')].pair.fdv)
         /\ NothingInPools(mcapLog'[Len(mcapLog')]))
        => (/\ mcapLog'[Len(mcapLog')].looked
            /\ ~mcapLog'[Len(mcapLog')].mcap.some
            /\ stats' = [stats EXCEPT !.mcap_missing = @ + 1]
            /\ rows' = rows /\ athLog' = athLog /\ stLog' = stLog
            /\ pc' = "filter" /\ fi' = fi + 1) ]_vars
C12_Witness ==
    /\ pc = "returned" /\ Len(mcapLog) = 2
    /\ mcapLog[1].pair = NoMcap(AddrA, RawNum(0), RawNum(0))
    /\ ~mcapLog[1].failed /\ mcapLog[1].pools # {} /\ ~mcapLog[1].mcap.some
    /\ mcapLog[2].pair = NoMcap(AddrB, RawNum(-5), RawNull)
    /\ mcapLog[2].failed /\ ~mcapLog[2].mcap.some
    /\ stats = [ZeroStats EXCEPT !.mcap_missing = 2]
    /\ rows = <<>> /\ athLog = <<>>

\* C13: the volume/liquidity check of the prefilter does not change the rows:
\* scan_once returns the rows that a scan without that check (the candidate
\* filter alone testing volume and liquidity) returns on the same fetched
\* pairs.  Stated for scans whose fetched pairs all carry a positive inline
\* market cap and all-time high, where the rows are a function of the fetched
\* pairs alone.
RECURSIVE AllFetched(_)
AllFetched(log) == IF log = <<>> THEN <<>> ELSE Head(log).chunk \o AllFetched(Tail(log))
ResolvedInline(p) == IsPos(InlineMcap(p)) /\ IsPos(InlineAth(p))
InlineRow(p) ==
    /\ PassesGates(p)
    /\ InRange(InlineMcap(p), cfg.mcap_min, cfg.mcap_max)
    /\ ~safe_float(p.priceUsd, None).nan
    /\ EmitsRow(safe_float(p.priceUsd, None).val, InlineAth(p).val)
RowsOfInline(ps) ==
    LET kept == SelectSeq(ps, InlineRow)
    IN  [i \in 1..Len(kept) |-> Row(kept[i], InlineAth(kept[i]).val)]
RowsWithoutVolLiqPrefilter ==
    RowsOfInline(select_best_pair_by_token(SelectSeq(AllFetched(pageLog), PrefilterMcapOnly)))
C13_PrefilterRedundant ==
    (/\ pc = "done"
     /\ \A i \in 1..Len(AllFetched(pageLog)) : ResolvedInline(AllFetched(pageLog)[i]))
        => /\ out.rows = RowsOfInline(best)
           /\ out.rows = RowsWithoutVolLiqPrefilter

\* C14: one scan_once run creates exactly one market-data client and at most
\* one secondary ATH client, and every request to the secondary provider goes
\* through that one instance: none is created per page or per token.
C14_OneClientEach ==
    /\ dexClients = 1
    /\ Len(stClients) <= 1
    /\ \A i \in 1..Len(stLog) : stLog[i].inst = 1

\* C15: the ATH resolver gives the first positive value of the chain inline
\* ATH, ATH of the pair fetched again by its address, highest ATH of the pools
\* of the token lookup, the secondary provider's high (only with a secondary
\* client), highest current price of those same pools (only with the proxy
\* flag), and sends no request of a later stage once it has one; a stage whose
\* request fails or carries nothing hands over to the next one; when no stage
\* gives a value the ATH is unresolved; without the proxy flag no current price
\* is ever the result.
PosAth(S) == {p.athPrice.v : p \in {q \in S : RawPositive(q.athPrice)}}
PosPrice(S) == {p.priceUsd.v : p \in {q \in S : RawPositive(q.priceUsd)}}
AthSettled == Len(athLog') = Len(athLog) + 1 /\ pc' = "filter" /\ fi' = fi + 1
AthResolved(v) == AthSettled /\ athLog'[Len(athLog')].ath = Some(v)
AthUnresolved == AthSettled /\ ~athLog'[Len(athLog')].ath.some
ProxyOrNothing(S) ==
    IF cfg.use_proxy_poolmax /\ PosPrice(S) # {}
    THEN AthResolved(Max(PosPrice(S))) ELSE AthUnresolved
AthStages == {"ath_pair", "ath_pools", "ath_st"}
C15_AthChain ==
    [][ /\ (pc \notin AthStages /\ pc' \in AthStages) => ~RawPositive(best[fi].athPrice)
        /\ (pc \notin AthStages /\ Len(athLog') = Len(athLog) + 1 /\ RawPositive(best[fi].athPrice))
              => athLog'[Len(athLog')].ath = Some(best[fi].athPrice.v)
        /\ (pc = "ath_pair" /\ pc' # pc) =>
              IF PosAth(last'.data.pairs) # {}
              THEN AthResolved(Max(PosAth(last'.data.pairs))) /\ stLog' = stLog
              ELSE pc' = "ath_pools" /\ athLog' = athLog /\ stLog' = stLog
        /\ (pc = "ath_pools" /\ pc' # pc) =>
              IF PosAth(last'.data.pairs) # {}
              THEN AthResolved(Max(PosAth(last'.data.pairs))) /\ stLog' = stLog
              ELSE IF cfg.env_key # ""
              THEN pc' = "ath_st" /\ athLog' = athLog
              ELSE ProxyOrNothing(last'.data.pairs) /\ stLog' = stLog
        /\ (pc = "ath_st" /\ pc' # pc) =>
              IF RawPositive(last'.data.high)
              THEN AthResolved(last'.data.high.v)
              ELSE ProxyOrNothing({tps[i] : i \in 1..Len(tps)})
        /\ (~cfg.use_proxy_poolmax /\ Len(athLog') = Len(athLog) + 1)
              => athLog'[Len(athLog')].src # "proxy" ]_vars
C15_Witness ==
    /\ pc = "done" /\ Len(athLog) = 2
    /\ athLog[1].src = "st" /\ athLog[1].ath = Some(150)
    /\ athLog[2].src = "proxy" /\ athLog[2].ath = Some(120)
    /\ Len(stLog) = 2

\* C16: the market-cap resolver gives the inline market cap when it is
\* positive, else the inline FDV when it is positive, else the highest, over
\* the pools the token lookup returned, of each pool's market cap if positive
\* and else its FDV if positive; it gives nothing when no source has a positive
\* value or the lookup fails; the lookup is made only when neither inline
\* value is positive.
PoolCaps(S) ==
    {tp.marketCap.v : tp \in {q \in S : RawPositive(q.marketCap)}}
      \cup {tp.fdv.v : tp \in {q \in S : ~RawPositive(q.marketCap) /\ RawPositive(q.fdv)}}
C16_McapChain ==
    /\ pc = "mcap_pools" =>
          (~RawPositive(best[fi].marketCap) /\ ~RawPositive(best[fi].fdv))
    /\ \A i \in 1..Len(mcapLog) :
          LET e == mcapLog[i]
          IN  IF RawPositive(e.pair.marketCap)
              THEN e.mcap = Some(e.pair.marketCap.v) /\ ~e.looked
              ELSE IF RawPositive(e.pair.fdv)
              THEN e.mcap = Some(e.pair.fdv.v) /\ ~e.looked
              ELSE /\ e.looked
                   /\ IF ~e.failed /\ PoolCaps(e.pools) # {}
                      THEN e.mcap = Some(Max(PoolCaps(e.pools)))
                      ELSE e.mcap = None
C16_Witness ==
    /\ pc = "returned" /\ Len(mcapLog) = 2
    /\ mcapLog[1].pair = NoMcap(AddrC, RawNum(-5), RawNum(5000000))
    /\ mcapLog[1].mcap = Some(5000000) /\ ~mcapLog[1].looked
    /\ mcapLog[2].pair = NoMcap(AddrA, RawNum(0), RawNum(0))
    /\ mcapLog[2].looked /\ Cardinality(mcapLog[2].pools) = 2
    /\ mcapLog[2].mcap = Some(5000000)
    /\ stats.mcap_ok = 2

\* C17: a get_token_ath call answered 401 or 404 ends at once, raises nothing
\* and gives no data, and a 401 sets the unauthorized flag of the client, which
\* is never reset; answered 429/500/502/503/504 the call is retried while fewer
\* than 4 attempts were made, and the 4th such answer is raised to the caller.
C17_AfterAttempt ==
    last.client = "st" =>
        /\ last.n <= 4
        /\ (last.kind = "status" /\ last.code \in {401, 404}) =>
              /\ ~last.open /\ ~last.raised
              /\ athLog[Len(athLog)].src \in {"proxy", "none"}
        /\ (last.kind = "status" /\ last.code = 401) =>
              stClients[stLog[Len(stLog)].inst].unauthorized
        /\ (last.kind = "status" /\ last.code \in {429, 500, 502, 503, 504}) =>
              IF last.n < 4 THEN last.open ELSE ~last.open /\ last.raised
C17_STClientStatuses ==
    [][ /\ C17_AfterAttempt'
        /\ \A i \in 1..Len(stClients) :
              stClients[i].unauthorized => stClients'[i].unauthorized ]_vars
C17_Witness ==
    /\ last.client = "st" /\ last.kind = "status" /\ last.code = 503
    /\ last.n = 4 /\ last.raised
    /\ Len(stLog) = 2
    /\ stClients[stLog[1].inst].unauthorized
    /\ ~stClients[stLog[2].inst].unauthorized

\* C18: in every result of scan_once, candidates_after_threshold is the number
\* of rows and at most ath_found; ath_found + ath_missing = mcap_ok; mcap_ok +
\* mcap_missing + mcap_out <= unique_tokens <= prefilter <= search_pairs; and
\* during the scan no counter ever decreases.
C18_Result ==
    out.returned =>
        /\ out.candidates_after_threshold = Len(out.rows)
        /\ Len(out.rows) <= out.stats.ath_found
        /\ out.stats.ath_found + out.stats.ath_missing = out.stats.mcap_ok
        /\ out.stats.mcap_ok + out.stats.mcap_missing + out.stats.mcap_out
              <= out.unique_tokens
        /\ out.unique_tokens <= out.prefilter
        /\ out.prefilter <= out.search_pairs
C18_StatsConsistent ==
    [][ /\ C18_Result'
        /\ stats'.mcap_ok >= stats.mcap_ok
        /\ stats'.mcap_missing >= stats.mcap_missing
        /\ stats'.mcap_out >= stats.mcap_out
        /\ stats'.ath_found >= stats.ath_found
        /\ stats'.ath_missing >= stats.ath_missing
        /\ fetched' >= fetched
        /\ Len(prefiltered') >= Len(prefiltered)
        /\ Len(rows') >= Len(rows) ]_vars
C18_Witness ==
    /\ out.returned
    /\ out.search_pairs = 2 /\ out.prefilter = 2 /\ out.unique_tokens = 2
    /\ out.stats = [ZeroStats EXCEPT !.mcap_ok = 2, !.ath_found = 1, !.ath_missing = 1]
    /\ out.candidates_after_threshold = 0

\* C19: the market-cap test of the prefilter agrees with the market-cap
\* resolver: a fetched pair that passes the volume and liquidity tests is
\* dropped by the prefilter only if the resolver would give it a market cap
\* outside [mcap_min, mcap_max]; in particular a pair whose inline marketCap
\* and FDV are zero, negative or absent is kept for the resolver.
RawNumber(x) == x.k \in {"num", "numstr"}
PassesVolLiq(p) ==
    /\ RawNumber(p.volH24) /\ RawNumber(p.liqUsd)
    /\ cfg.volume_min <= p.volH24.v /\ p.volH24.v <= cfg.volume_max
    /\ cfg.liq_min_usd <= p.liqUsd.v
Kept(p) == \E i \in 1..Len(prefiltered) : prefiltered[i] = p
ResolverOutside(p) ==
    IF RawPositive(p.marketCap)
    THEN p.marketCap.v < cfg.mcap_min \/ p.marketCap.v > cfg.mcap_max
    ELSE /\ RawPositive(p.fdv)
         /\ (p.fdv.v < cfg.mcap_min \/ p.fdv.v > cfg.mcap_max)
C19_PrefilterAgreesWithResolver ==
    \A i \in 1..Len(AllFetched(pageLog)) :
        LET p == AllFetched(pageLog)[i]
        IN  PassesVolLiq(p) =>
                /\ ~Kept(p) => ResolverOutside(p)
                /\ (NonPositiveRaw(p.marketCap) /\ NonPositiveRaw(p.fdv)) => Kept(p)

====
